---------------------------- MODULE Spec2Model ----------------------------
(***************************************************************************)
(* Project Elysium: the console storyteller (game_engine.py) and the push  *)
(* (WebSocket) storyteller (main.py).                                      *)
(*                                                                         *)
(* A Python string is a sequence of tokens; a token is a TLA+ string that  *)
(* stands for a run of characters.  Concatenation is \o, so formatting,    *)
(* joining and cleaning are computed, not assumed.                         *)
(***************************************************************************)
EXTENDS Integers, Sequences, FiniteSets, TLC

\* ------------------------------------------------------------------ bounds

\* Accepted choices (turns) after which the model stops accepting choices.
MaxTurns == 1

\* Depth at which the interpreter refuses a further recursive call
\* (RecursionError); stands for sys.getrecursionlimit().
RecursionLimit == 3

\* Worker threads of the event loop's default executor.
PoolSize == 1

\* ------------------------------------------------------------- python text

NoneValue == "None"

IsPrefix(s, t) == Len(s) <= Len(t) /\ SubSeq(t, 1, Len(s)) = s

\* str.replace(old, new) for a one-token old; new is a string (maybe empty).
RECURSIVE replace(_, _, _)
replace(s, old, new) ==
    IF s = <<>> THEN <<>>
    ELSE (IF Head(s) = old THEN new ELSE <<Head(s)>>) \o replace(Tail(s), old, new)

Whitespace == {" ", "\n"}

RECURSIVE lstrip(_)
lstrip(s) ==
    IF s # <<>> /\ Head(s) \in Whitespace THEN lstrip(Tail(s)) ELSE s

RECURSIVE rstrip(_)
rstrip(s) ==
    IF s # <<>> /\ s[Len(s)] \in Whitespace THEN rstrip(SubSeq(s, 1, Len(s) - 1)) ELSE s

\* str.strip()
strip(s) == rstrip(lstrip(s))

\* Faulty variant: the entries are run together without the separator.
RECURSIVE join_concat(_)
join_concat(l) == IF l = <<>> THEN <<>> ELSE l[1] \o join_concat(Tail(l))

\* ' '.join(list_of_strings)
RECURSIVE join(_)
join(l) ==
    IF l = <<>> THEN <<>>
    ELSE IF Len(l) = 1 THEN l[1]
    ELSE l[1] \o <<" ">> \o join(Tail(l))

\* str.upper() on the console inputs of the model.
upper(c) ==
    CASE c = "a" -> "A"
      [] c = "b" -> "B"
      [] c = "quit" -> "QUIT"
      [] c = "x" -> "X"
      [] OTHER -> c

\* ------------------------------------------------------ completion client

\* The sentinels of game_engine.call_gemini_api and of main.call_gemini_api.
GE_ERR_UNEXPECTED == <<"Error: The AI returned an unexpected text response.">>
GE_ERR_CONNECT == <<"Error: Could not connect to the AI.">>
MAIN_ERR_UNAVAILABLE == <<"Error: The AI storyteller is currently unavailable.">>

\* Candidate texts the service may return: prose with markup, and no text.
SceneProse == <<"*", "A", "\n", "B", " ">>
Texts == {SceneProse, <<>>}

\* What one POST to the text service can come to.
\*   ConnectionError        requests.post raises (transport failure, timeout)
\*   HTTPError              raise_for_status raises (status >= 400)
\*   not_json_RequestsJSONDecodeError / not_json_ValueError
\*                          200 with a body that is no JSON: response.json()
\*                          raises requests' JSONDecodeError (a
\*                          RequestException, requests >= 2.27) or a plain
\*                          ValueError (older requests)
\*   json_array             200 with JSON that is no object: data.get fails
\*   no_candidates          200, object with no or an empty 'candidates'
\*   candidate_malformed    200, a candidate lacking content/parts/text
\*   candidate              200, a candidate carrying text
GeminiKinds ==
    {"ConnectionError", "HTTPError", "not_json_RequestsJSONDecodeError",
     "not_json_ValueError", "json_array", "no_candidates",
     "candidate_malformed"}

GeminiResponses ==
    [kind : GeminiKinds, text : {<<>>}] \cup [kind : {"candidate"}, text : Texts]

Returned(t) == [raised |-> "none", text |-> t]
Raised(e) == [raised |-> e, text |-> <<>>]

\* game_engine.call_gemini_api: only RequestException is caught.
game_engine_call_gemini_api(response) ==
    CASE response.kind \in {"ConnectionError", "HTTPError",
                            "not_json_RequestsJSONDecodeError"} -> Returned(GE_ERR_CONNECT)
      [] response.kind = "not_json_ValueError" -> Raised("ValueError")
      [] response.kind = "json_array" -> Raised("AttributeError")
      [] response.kind = "no_candidates" -> Returned(GE_ERR_UNEXPECTED)
      [] response.kind = "candidate_malformed" -> Raised("KeyError")
      [] OTHER -> Returned(response.text)

\* main.call_gemini_api: one sentinel, reached by falling out of the try.
main_call_gemini_api(response) ==
    CASE response.kind \in {"ConnectionError", "HTTPError",
                            "not_json_RequestsJSONDecodeError",
                            "no_candidates"} -> Returned(MAIN_ERR_UNAVAILABLE)
      [] response.kind = "not_json_ValueError" -> Raised("ValueError")
      [] response.kind = "json_array" -> Raised("AttributeError")
      [] response.kind = "candidate_malformed" -> Raised("KeyError")
      [] OTHER -> Returned(response.text)

\* The post-processing of generate_visual_prompt(_async).
clean_prompt(visual_prompt) ==
    strip(replace(replace(visual_prompt, "\n", <<" ">>), "*", <<>>))

game_engine_visual_request(story_text) ==
    <<"You are an AI assistant that creates safe, simple, and concise image generation prompts. Based on the following fantasy story scene, create a very short, clean, descriptive prompt. It must be under 20 words. Style: beautiful digital art, fantasy, cinematic lighting. Scene: '">>
        \o story_text \o <<"'">>

main_visual_request(story_text) ==
    <<"You are an AI assistant creating image prompts. Based on the following scene, create a short, descriptive prompt under 20 words. Style: beautiful digital art, fantasy, cinematic lighting. Scene: '">>
        \o story_text \o <<"'">>


\* ---------------------------------------------------- illustration client

\* What one POST to the image service can come to.  exc is what
\* requests.post / raise_for_status raise ("none": a 2xx answer); status is
\* the status of the response the exception carries (0: it carries none);
\* estimated_time is in tenths of a second (0: the body has none).
\*   none/200/image            an image
\*   none/200/garbage          a 2xx body PIL cannot identify
\*   ConnectionError           no response at all
\*   HTTPError/503             an error status, body a loading notice or not
\*   TooManyRedirects/302      the redirect limit, the exception carrying
\*                             the last 3xx response
EstimatedTimes == {20, 25}

ImageResponses ==
    {[exc |-> "none", status |-> 200, body |-> "image", estimated_time |-> 0],
     [exc |-> "none", status |-> 200, body |-> "garbage", estimated_time |-> 0],
     [exc |-> "ConnectionError", status |-> 0, body |-> "none", estimated_time |-> 0],
     [exc |-> "HTTPError", status |-> 503, body |-> "other", estimated_time |-> 0],
     [exc |-> "TooManyRedirects", status |-> 302, body |-> "other", estimated_time |-> 0]}
    \cup [exc : {"HTTPError"}, status : {503}, body : {"loading"},
          estimated_time : EstimatedTimes]
    \cup [exc : {"TooManyRedirects"}, status : {302}, body : {"loading"},
          estimated_time : EstimatedTimes]

\* bool(e.response): None is falsy, and requests.Response.__bool__ is
\* Response.ok, false for every status >= 400.
response_truthy(r) == r.status # 0 /\ r.status < 400

\* int(error_data["estimated_time"]), the argument of time.sleep, in seconds.
wait_time(r) == r.estimated_time \div 10

ImageResult(ret, exc, n, sl) ==
    [ret |-> ret, raised |-> exc, requests |-> n, sleeps |-> sl]

\* game_engine.generate_image_with_stable_diffusion: the call at recursion
\* depth `depth`, the service answering its requests with `resps`, in order.
\* ret is "pending" while the call is blocked in a request `resps` does not
\* answer yet.
RECURSIVE game_engine_generate_image(_, _, _)
game_engine_generate_image(key, resps, depth) ==
    IF ~key THEN ImageResult("None", "none", 0, <<>>)
    ELSE IF depth > RecursionLimit THEN ImageResult("None", "RecursionError", 0, <<>>)
    ELSE IF resps = <<>> THEN ImageResult("pending", "none", 1, <<>>)
    ELSE LET r == Head(resps) IN
        IF r.exc = "none"
        THEN IF r.body = "image"
             THEN ImageResult("Image", "none", 1, <<>>)
             ELSE ImageResult("None", "UnidentifiedImageError", 1, <<>>)
        ELSE IF response_truthy(r) /\ r.body = "loading"
        THEN LET retry == game_engine_generate_image(key, Tail(resps), depth + 1) IN
             \* the bare except around the retry swallows what the retry raised
             ImageResult(IF retry.raised = "none" THEN retry.ret ELSE "None",
                         "none", 1 + retry.requests,
                         <<wait_time(r)>> \o retry.sleeps)
        ELSE ImageResult("None", "none", 1, <<>>)

\* Faulty variant: the credential is not looked at.
main_generate_image_unchecked(key, resps) ==
    IF resps = <<>> THEN ImageResult("pending", "none", 1, <<>>)
    ELSE LET r == Head(resps) IN
        IF r.exc = "none"
        THEN IF r.body = "image"
             THEN ImageResult("b64", "none", 1, <<>>)
             ELSE ImageResult("None", "UnidentifiedImageError", 1, <<>>)
        ELSE ImageResult("None", "none", 1, <<>>)

\* main.generate_image_with_stable_diffusion: no retry branch.
main_generate_image(key, resps) ==
    IF ~key THEN ImageResult("None", "none", 0, <<>>)
    ELSE IF resps = <<>> THEN ImageResult("pending", "none", 1, <<>>)
    ELSE LET r == Head(resps) IN
        IF r.exc = "none"
        THEN IF r.body = "image"
             THEN ImageResult("b64", "none", 1, <<>>)
             ELSE ImageResult("None", "UnidentifiedImageError", 1, <<>>)
        ELSE ImageResult("None", "none", 1, <<>>)

NoImage == ImageResult("None", "none", 0, <<>>)

\* ------------------------------------------------------------------ state

VARIABLES
    variant,              \* which program runs: "console" or "push"
    HUGGINGFACE_API_KEY,  \* TRUE iff the image credential is non-empty
    \* game_engine.main_game_loop
    ge_pc,                \* where the loop is blocked
    ge_story_history,
    ge_scene_counter,
    ge_scene_text,
    ge_visual_prompt,
    ge_prompt,            \* initial_prompt / next_prompt of the pending call
    ge_user_choice,
    ge_answers,           \* the image service's answers to the call in progress
    ge_image,             \* what the last illustration call came to
    ge_files,             \* image files written, in order
    ge_stdout,            \* scenes printed, in order
    ge_exc,               \* the exception that ended the process
    ge_calls,             \* calls made by the pipeline run in progress
    ge_turns,             \* choices accepted
    ge_invalid,           \* invalid choices entered
    \* main: the registry, the executor, and per connection the locals of
    \* websocket_endpoint
    active_connections,
    executor_queue,       \* jobs handed to run_in_executor, not yet started
    executor_running,     \* jobs a worker thread is executing
    future,               \* per session: the future its coroutine awaits
    pc,
    client,               \* the browser's end of the connection
    story_history,
    scene_text,
    visual_prompt,
    user_choice,
    image_b64,
    outbox,               \* messages delivered to the client
    exc,                  \* the exception that ended the handler
    calls,                \* calls made by the pipeline run in progress
    turns,                \* choices accepted
    \* one call of one client function, on its own
    cl_pc,
    cl_fn,                \* the function called
    cl_arg,               \* its argument (a prompt)
    cl_answers,           \* what the service answered to its requests, in order
    cl_result             \* what the call came to

main_vars ==
    <<active_connections, executor_queue, executor_running, future, pc, client,
      story_history, scene_text, visual_prompt, user_choice, image_b64, outbox,
      exc, calls, turns>>

cl_vars == <<cl_pc, cl_fn, cl_arg, cl_answers, cl_result>>

config_vars == <<variant, HUGGINGFACE_API_KEY>>

ge_vars ==
    <<ge_pc, ge_story_history, ge_scene_counter, ge_scene_text, ge_visual_prompt,
      ge_prompt, ge_user_choice, ge_answers, ge_image, ge_files, ge_stdout,
      ge_exc, ge_calls, ge_turns, ge_invalid>>

\* Invalid console inputs after which the model stops taking invalid inputs.
MaxInvalid == 1

Call(fn, arg) == [fn |-> fn, arg |-> arg]

\* ----------------------------------------------------- console session loop

ConsoleIdeas == {<<"a knight in a haunted forest">>}

ConsoleInputs == {"A", "B", "a", "quit", "x"}

game_engine_premise(user_idea) ==
    <<"The user's character is ">> \o user_idea \o <<".">>

game_engine_initial_prompt(user_idea) ==
    <<"You are a text adventure game's Dungeon Master. The user's character and setting is: '">>
        \o user_idea
        \o <<"'. Describe the opening scene in a vivid, engaging style. End your response by giving the user two clear choices, labeled A and B.">>

game_engine_next_prompt(history) ==
    <<"You are a text adventure game's Dungeon Master. Continue the story based on the user's last choice. Describe the outcome and the new scene. Keep it consistent and engaging. End with two new, clear choices, labeled A and B. Here is the story so far:\n">>
        \o join(history)

\* Faulty variant: the tag without the text.
scene_line_tag_only(text) == <<"AI Scene: ">>

scene_line(text) == <<"AI Scene: ">> \o text

choice_line(choice) == <<"User chose: ", choice>>

\* Faulty variant: a scene that is only an error sentinel is not recorded.
game_engine_append_scene_unless_error(history, text) ==
    IF text \in {GE_ERR_CONNECT, GE_ERR_UNEXPECTED} THEN history
    ELSE Append(history, scene_line(text))

\* Faulty variant: the transcript is kept as a window of its last entries.
main_append_scene_window(history, text) ==
    IF Len(history) >= 3 THEN Append(Tail(history), scene_line(text))
    ELSE Append(history, scene_line(text))

\* story_history.append(f"AI Scene: {scene_text}")
\* Faulty variant: the push loop does not record a scene that is only the
\* error sentinel.
main_append_scene_unless_error(history, text) ==
    IF text = MAIN_ERR_UNAVAILABLE THEN history
    ELSE Append(history, scene_line(text))

game_engine_append_scene(history, text) == Append(history, scene_line(text))

main_append_scene(history, text) == Append(history, scene_line(text))

\* Faulty variant: any answer at all counts as a choice.
valid_choice_any(choice) == choice # NoneValue

\* user_choice in ['A', 'B']
valid_choice(choice) == choice \in {"A", "B"}

\* Faulty variant: the counter is not part of the file name.
scene_file_fixed(n) == <<"scene_", 1, ".png">>

scene_file(n) == <<"scene_", n, ".png">>

ge_Crash(e) ==
    /\ ge_pc' = "crashed"
    /\ ge_exc' = e

\* input(premise); story_history = [...]; scene_counter = 0; initial_prompt
ge_Start(user_idea) ==
    /\ variant = "console"
    /\ UNCHANGED <<config_vars, main_vars, cl_vars>>
    /\ ge_pc = "premise"
    /\ ge_story_history' = <<game_engine_premise(user_idea)>>
    /\ ge_scene_counter' = 0
    /\ ge_prompt' = game_engine_initial_prompt(user_idea)
    /\ ge_pc' = "scene"
    /\ UNCHANGED <<ge_scene_text, ge_visual_prompt, ge_user_choice, ge_answers, ge_image,
                   ge_files, ge_stdout, ge_exc, ge_calls, ge_turns, ge_invalid>>

\* scene_text = call_gemini_api(prompt); story_history.append(...)
ge_Scene(response) ==
    /\ variant = "console"
    /\ UNCHANGED <<config_vars, main_vars, cl_vars>>
    /\ ge_pc = "scene"
    /\ ge_calls' = Append(ge_calls, Call("call_gemini_api", ge_prompt))
    /\ LET r == game_engine_call_gemini_api(response) IN
       IF r.raised # "none"
       THEN /\ ge_Crash(r.raised)
            /\ UNCHANGED <<ge_scene_text, ge_story_history>>
       ELSE /\ ge_scene_text' = r.text
            /\ ge_story_history' = game_engine_append_scene(ge_story_history, r.text)
            /\ ge_pc' = "visual"
            /\ UNCHANGED ge_exc
    /\ UNCHANGED <<ge_scene_counter, ge_visual_prompt, ge_prompt, ge_user_choice,
                   ge_answers, ge_image, ge_files, ge_stdout, ge_turns, ge_invalid>>

\* visual_prompt = generate_visual_prompt(scene_text)
ge_Visual(response) ==
    /\ variant = "console"
    /\ UNCHANGED <<config_vars, main_vars, cl_vars>>
    /\ ge_pc = "visual"
    /\ ge_calls' = ge_calls \o
           <<Call("generate_visual_prompt", ge_scene_text),
             Call("call_gemini_api", game_engine_visual_request(ge_scene_text))>>
    /\ LET r == game_engine_call_gemini_api(response) IN
       IF r.raised # "none"
       THEN /\ ge_Crash(r.raised)
            /\ UNCHANGED ge_visual_prompt
       ELSE /\ ge_visual_prompt' = clean_prompt(r.text)
            /\ ge_pc' = "image"
            /\ UNCHANGED ge_exc
    /\ UNCHANGED <<ge_story_history, ge_scene_counter, ge_scene_text, ge_prompt,
                   ge_user_choice, ge_answers, ge_image, ge_files, ge_stdout,
                   ge_turns, ge_invalid>>

\* The return of generate_image_with_stable_diffusion into the loop:
\* if image: save it; then the top of the while loop prints the scene and
\* blocks in input().
ge_ImageReturn(r) ==
    /\ ge_image' = r
    /\ ge_answers' = <<>>
    /\ IF r.raised # "none"
       THEN /\ ge_Crash(r.raised)
            /\ UNCHANGED <<ge_scene_counter, ge_files, ge_stdout>>
       ELSE /\ IF r.ret # "None"
               THEN /\ ge_scene_counter' = ge_scene_counter + 1
                    /\ ge_files' = Append(ge_files, scene_file(ge_scene_counter + 1))
               ELSE UNCHANGED <<ge_scene_counter, ge_files>>
            /\ ge_stdout' = Append(ge_stdout, ge_scene_text)
            /\ ge_pc' = "choice"
            /\ UNCHANGED ge_exc

\* image = generate_image_with_stable_diffusion(visual_prompt), up to its
\* first request (or its return, when it makes none).
ge_Image ==
    /\ variant = "console"
    /\ UNCHANGED <<config_vars, main_vars, cl_vars>>
    /\ ge_pc = "image"
    /\ ge_calls' = Append(ge_calls,
           Call("generate_image_with_stable_diffusion", ge_visual_prompt))
    /\ LET r == game_engine_generate_image(HUGGINGFACE_API_KEY, <<>>, 1) IN
       IF r.ret = "pending"
       THEN /\ ge_pc' = "image_request"
            /\ UNCHANGED <<ge_answers, ge_image, ge_scene_counter, ge_files,
                           ge_stdout, ge_exc>>
       ELSE ge_ImageReturn(r)
    /\ UNCHANGED <<ge_story_history, ge_scene_text, ge_visual_prompt, ge_prompt,
                   ge_user_choice, ge_turns, ge_invalid>>

\* The image service answers the request the call is blocked in.
ge_ImageAnswer(response) ==
    /\ variant = "console"
    /\ UNCHANGED <<config_vars, main_vars, cl_vars>>
    /\ ge_pc = "image_request"
    /\ LET r == game_engine_generate_image(HUGGINGFACE_API_KEY,
                                           Append(ge_answers, response), 1) IN
       IF r.ret = "pending"
       THEN /\ ge_answers' = Append(ge_answers, response)
            /\ UNCHANGED <<ge_pc, ge_image, ge_scene_counter, ge_files,
                           ge_stdout, ge_exc>>
       ELSE ge_ImageReturn(r)
    /\ UNCHANGED <<ge_story_history, ge_scene_text, ge_visual_prompt, ge_prompt,
                   ge_user_choice, ge_calls, ge_turns, ge_invalid>>

\* user_choice = input(...).upper() and the rest of the loop body up to the
\* next blocking call.
ge_Choice(typed) ==
    /\ variant = "console"
    /\ UNCHANGED <<config_vars, main_vars, cl_vars>>
    /\ ge_pc = "choice"
    /\ ge_user_choice' = upper(typed)
    /\ IF ge_user_choice' = "QUIT"
       THEN /\ ge_pc' = "quit"
            /\ UNCHANGED <<ge_story_history, ge_prompt, ge_stdout, ge_calls,
                           ge_turns, ge_invalid>>
       ELSE IF ~valid_choice(ge_user_choice')
       THEN /\ ge_invalid < MaxInvalid
            /\ ge_invalid' = ge_invalid + 1
            \* continue: the scene is printed again, then input()
            /\ ge_stdout' = Append(ge_stdout, ge_scene_text)
            /\ ge_pc' = "choice"
            /\ UNCHANGED <<ge_story_history, ge_prompt, ge_calls, ge_turns>>
       ELSE /\ ge_turns < MaxTurns
            /\ ge_turns' = ge_turns + 1
            /\ ge_story_history' = Append(ge_story_history, choice_line(ge_user_choice'))
            /\ ge_prompt' = game_engine_next_prompt(ge_story_history')
            /\ ge_calls' = <<>>
            /\ ge_pc' = "scene"
            /\ UNCHANGED <<ge_stdout, ge_invalid>>
    /\ UNCHANGED <<ge_scene_counter, ge_scene_text, ge_visual_prompt, ge_answers,
                   ge_image, ge_files, ge_exc>>

ge_Init ==
    /\ ge_pc = IF variant = "console" THEN "premise" ELSE "off"
    /\ ge_story_history = <<>>
    /\ ge_scene_counter = 0
    /\ ge_scene_text = <<>>
    /\ ge_visual_prompt = <<>>
    /\ ge_prompt = <<>>
    /\ ge_user_choice = NoneValue
    /\ ge_answers = <<>>
    /\ ge_image = NoImage
    /\ ge_files = <<>>
    /\ ge_stdout = <<>>
    /\ ge_exc = "none"
    /\ ge_calls = <<>>
    /\ ge_turns = 0
    /\ ge_invalid = 0

\* -------------------------------------------------------- push session loop

Sessions == {"ws1", "ws2"}

main_default_idea == <<"a brave adventurer in a mysterious land">>

\* Inbound frames.  json says what receive_json makes of the frame: a JSON
\* object (a dict with the keys `keys`), other JSON (a list), or no JSON.
Frame(json, keys, idea, choice) ==
    [json |-> json, keys |-> keys, idea |-> idea, choice |-> choice]

PremiseFrames ==
    {Frame("object", {"idea"}, <<"a knight in a haunted forest">>, NoneValue),
     Frame("object", {}, <<>>, NoneValue),
     Frame("array", {}, <<>>, NoneValue),
     Frame("invalid", {}, <<>>, NoneValue)}

ChoiceFrames ==
    {Frame("object", {"choice"}, <<>>, c) : c \in {"A", "B", "x"}}
    \cup {Frame("object", {}, <<>>, NoneValue),
          Frame("array", {}, <<>>, NoneValue),
          Frame("invalid", {}, <<>>, NoneValue)}

\* What receive_json and the .get after it raise on a frame, if anything.
frame_error(frame) ==
    CASE frame.json = "invalid" -> "JSONDecodeError"
      [] frame.json = "array" -> "AttributeError"
      [] OTHER -> "none"

\* dict.get(key, default)
get(frame, key, default) == IF key \in frame.keys THEN frame[key] ELSE default

\* Faulty variant: the idea is recorded bare, without the premise sentence.
main_premise_bare(user_idea) == user_idea

main_premise(user_idea) ==
    <<"The user's character is ">> \o user_idea \o <<".">>

main_initial_prompt(user_idea) ==
    <<"You are a text adventure game's Dungeon Master. The user's character and setting is: '">>
        \o user_idea
        \o <<"'. Describe the opening scene vividly. Your response MUST end with two clear choices for the user, formatted exactly as 'A) [Choice text]' and 'B) [Choice text]' on separate lines.">>

main_next_prompt(history) ==
    <<"You are a text adventure game's Dungeon Master. Continue the story based on the user's last choice. Describe the outcome and the new scene. Keep the story consistent. Your response MUST end with two new, clear choices, formatted exactly as 'A) [Choice text]' and 'B) [Choice text]' on separate lines. Here is the story so far:\n">>
        \o join(history)

StoryMessage(text) == [type |-> "story", text |-> text]

ImageMessage == [type |-> "image", data |-> <<"b64">>]

\* list.remove(x): the first occurrence goes.
RECURSIVE remove(_, _)
remove(l, x) ==
    IF l = <<>> THEN <<>>
    ELSE IF Head(l) = x THEN Tail(l)
    ELSE <<Head(l)>> \o remove(Tail(l), x)

Job(s, fn, arg) == [session |-> s, fn |-> fn, arg |-> arg]

NoFuture == [state |-> "none", value |-> Returned(<<>>)]

PendingFuture == [state |-> "pending", value |-> Returned(<<>>)]

\* Jobs of session s handed to the executor that have not returned.
InFlight(s) ==
    Cardinality({i \in 1..Len(executor_queue) : executor_queue[i].session = s})
        + Cardinality({j \in executor_running : j.session = s})

\* Faulty variant: the coroutine does not wait for the future.
future_done_eager(s) == TRUE

\* await: the coroutine resumes once the future it awaits has its result.
future_done(s) == future[s].state = "done"

\* await loop.run_in_executor(None, fn, arg): hand the job over, then wait.
run_in_executor(s, fn, arg) ==
    /\ executor_queue' = Append(executor_queue, Job(s, fn, arg))
    /\ future' = [future EXCEPT ![s] = PendingFuture]
    /\ UNCHANGED executor_running

\* ConnectionManager.connect, and the handler up to its first receive.
Connect(s) ==
    /\ variant = "push"
    /\ pc[s] = "new"
    /\ active_connections' = Append(active_connections, s)
    /\ pc' = [pc EXCEPT ![s] = "premise"]
    /\ client' = [client EXCEPT ![s] = "open"]
    /\ UNCHANGED <<config_vars, ge_vars, cl_vars, executor_queue, executor_running, future,
                   story_history, scene_text, visual_prompt, user_choice, image_b64, outbox,
                   exc, calls, turns>>

\* Faulty variant: the disconnect cancels the session's jobs in the executor.
ClientDisconnect_cancelling(s) ==
    /\ variant = "push"
    /\ pc[s] \notin {"new", "ended", "crashed"}
    /\ client[s] = "open"
    /\ client' = [client EXCEPT ![s] = "closed"]
    /\ executor_queue' = SelectSeq(executor_queue, LAMBDA j : j.session # s)
    /\ executor_running' = {j \in executor_running : j.session # s}
    /\ UNCHANGED <<config_vars, ge_vars, cl_vars, active_connections,
                   future, pc, story_history, scene_text,
                   visual_prompt, user_choice, image_b64, outbox, exc, calls, turns>>

\* The browser goes away (closed tab, lost network).
ClientDisconnect(s) ==
    /\ variant = "push"
    /\ pc[s] \notin {"new", "ended", "crashed"}
    /\ client[s] = "open"
    /\ client' = [client EXCEPT ![s] = "closed"]
    /\ UNCHANGED <<config_vars, ge_vars, cl_vars, active_connections, executor_queue,
                   executor_running, future, pc, story_history, scene_text,
                   visual_prompt, user_choice, image_b64, outbox, exc, calls, turns>>

\* The handler's frame is gone: its locals with it (the transcript and what
\* the client received stay, for the record).
drop_locals(s) ==
    /\ scene_text' = [scene_text EXCEPT ![s] = <<>>]
    /\ visual_prompt' = [visual_prompt EXCEPT ![s] = <<>>]
    /\ user_choice' = [user_choice EXCEPT ![s] = NoneValue]
    /\ image_b64' = [image_b64 EXCEPT ![s] = NoneValue]
    /\ calls' = [calls EXCEPT ![s] = <<>>]

\* except WebSocketDisconnect: manager.disconnect(websocket)
on_disconnect(s) ==
    /\ active_connections' = remove(active_connections, s)
    /\ pc' = [pc EXCEPT ![s] = "ended"]
    /\ exc' = [exc EXCEPT ![s] = "WebSocketDisconnect"]

\* Any other exception leaves websocket_endpoint uncaught.
on_exception(s, e) ==
    /\ pc' = [pc EXCEPT ![s] = "crashed"]
    /\ exc' = [exc EXCEPT ![s] = e]
    /\ UNCHANGED active_connections

\* What a send_json comes to.  To an open client it is delivered.  Once the
\* browser is gone the server stack decides: WebSocketDisconnect, another
\* exception (RuntimeError, ConnectionClosed), or a frame written to a
\* socket nobody reads.
ClosedSendOutcomes == {"WebSocketDisconnect", "RuntimeError", "dropped"}

send_json(s, how) == IF client[s] = "open" THEN "sent" ELSE how

\* Faulty variant: the frame goes to every registered connection.
deliver_broadcast(s, message) ==
    [t \in Sessions |->
        IF \E i \in 1..Len(active_connections) : active_connections[i] = t
        THEN Append(outbox[t], message) ELSE outbox[t]]

\* Faulty variant: the frame is written twice.
deliver_twice(s, message) == [outbox EXCEPT ![s] = Append(Append(@, message), message)]

\* The frame of a send_json that went through reaches the client of this
\* websocket.
deliver(s, message) == [outbox EXCEPT ![s] = Append(@, message)]

\* receive_json raises WebSocketDisconnect: the browser is gone and no frame
\* of it is left to read.
RecvDisconnect(s) ==
    /\ variant = "push"
    /\ pc[s] \in {"premise", "choice"}
    /\ client[s] = "closed"
    /\ on_disconnect(s)
    /\ drop_locals(s)
    /\ UNCHANGED <<config_vars, ge_vars, cl_vars, executor_queue, executor_running, future,
                   client, story_history, outbox, turns>>

\* initial_data = await websocket.receive_json() ... up to the await of the
\* opening scene.
RecvPremise(s, frame) ==
    /\ variant = "push"
    /\ pc[s] = "premise"
    /\ IF frame_error(frame) # "none"
       THEN /\ on_exception(s, frame_error(frame))
            /\ drop_locals(s)
            /\ UNCHANGED <<executor_queue, executor_running, future, story_history>>
       ELSE LET user_idea == get(frame, "idea", main_default_idea) IN
            /\ story_history' = [story_history EXCEPT ![s] = Append(@, main_premise(user_idea))]
            /\ run_in_executor(s, "call_gemini_api", main_initial_prompt(user_idea))
            /\ calls' = [calls EXCEPT ![s] =
                   <<Call("call_gemini_api", main_initial_prompt(user_idea))>>]
            /\ pc' = [pc EXCEPT ![s] = "scene"]
            /\ UNCHANGED <<active_connections, exc, scene_text, visual_prompt,
                           user_choice, image_b64>>
    /\ UNCHANGED <<config_vars, ge_vars, cl_vars, client, outbox, turns>>

\* A worker thread takes the next job.
WorkerStart ==
    /\ variant = "push"
    /\ executor_queue # <<>>
    /\ Cardinality(executor_running) < PoolSize
    /\ executor_running' = executor_running \cup {Head(executor_queue)}
    /\ executor_queue' = Tail(executor_queue)
    /\ UNCHANGED <<config_vars, ge_vars, cl_vars, active_connections, future, pc, client,
                   story_history, scene_text, visual_prompt, user_choice, image_b64, outbox,
                   exc, calls, turns>>

\* The text service answers; call_gemini_api returns (or raises) into the
\* future.
WorkerGemini(job, response) ==
    /\ variant = "push"
    /\ job \in executor_running
    /\ job.fn = "call_gemini_api"
    /\ executor_running' = executor_running \ {job}
    /\ future' = [future EXCEPT ![job.session] =
           [state |-> "done", value |-> main_call_gemini_api(response)]]
    /\ UNCHANGED <<config_vars, ge_vars, cl_vars, active_connections, executor_queue, pc,
                   client, story_history, scene_text, visual_prompt, user_choice,
                   image_b64, outbox, exc, calls, turns>>

\* generate_image_with_stable_diffusion returns without a request (no
\* credential), or the image service answers its request.
WorkerImage(job, answers) ==
    /\ variant = "push"
    /\ job \in executor_running
    /\ job.fn = "generate_image_with_stable_diffusion"
    /\ main_generate_image(HUGGINGFACE_API_KEY, answers).ret # "pending"
    /\ Len(answers) = main_generate_image(HUGGINGFACE_API_KEY, answers).requests
    /\ executor_running' = executor_running \ {job}
    /\ future' = [future EXCEPT ![job.session] =
           [state |-> "done",
            value |-> main_generate_image(HUGGINGFACE_API_KEY, answers)]]
    /\ UNCHANGED <<config_vars, ge_vars, cl_vars, active_connections, executor_queue, pc,
                   client, story_history, scene_text, visual_prompt, user_choice,
                   image_b64, outbox, exc, calls, turns>>

\* scene_text = await call_gemini_api_async(prompt) returns; append; send the
\* story; up to the await inside generate_visual_prompt_async.
ResumeScene(s, how) ==
    /\ variant = "push"
    /\ pc[s] = "scene"
    /\ future_done(s)
    /\ LET r == future[s].value IN
       IF r.raised # "none"
       THEN /\ on_exception(s, r.raised)
            /\ drop_locals(s)
            /\ future' = [future EXCEPT ![s] = NoFuture]
            /\ UNCHANGED <<executor_queue, executor_running, story_history, outbox>>
       ELSE /\ story_history' = [story_history EXCEPT ![s] = main_append_scene(@, r.text)]
            /\ CASE send_json(s, how) = "WebSocketDisconnect" ->
                     /\ on_disconnect(s)
                     /\ drop_locals(s)
                     /\ future' = [future EXCEPT ![s] = NoFuture]
                     /\ UNCHANGED <<executor_queue, executor_running, outbox>>
                 [] send_json(s, how) = "RuntimeError" ->
                     /\ on_exception(s, "RuntimeError")
                     /\ drop_locals(s)
                     /\ future' = [future EXCEPT ![s] = NoFuture]
                     /\ UNCHANGED <<executor_queue, executor_running, outbox>>
                 [] OTHER ->
                     /\ outbox' = IF send_json(s, how) = "sent"
                                  THEN deliver(s, StoryMessage(r.text))
                                  ELSE outbox
                     /\ scene_text' = [scene_text EXCEPT ![s] = r.text]
                     /\ run_in_executor(s, "call_gemini_api", main_visual_request(r.text))
                     /\ calls' = [calls EXCEPT ![s] = @ \o
                            <<Call("generate_visual_prompt_async", r.text),
                              Call("call_gemini_api", main_visual_request(r.text))>>]
                     /\ pc' = [pc EXCEPT ![s] = "visual"]
                     /\ UNCHANGED <<active_connections, exc, visual_prompt, user_choice,
                                   image_b64>>
    /\ UNCHANGED <<config_vars, ge_vars, cl_vars, client, turns>>

\* generate_visual_prompt_async returns the cleaned prompt; up to the await
\* inside generate_image_async.
ResumeVisual(s) ==
    /\ variant = "push"
    /\ pc[s] = "visual"
    /\ future_done(s)
    /\ LET r == future[s].value IN
       IF r.raised # "none"
       THEN /\ on_exception(s, r.raised)
            /\ drop_locals(s)
            /\ future' = [future EXCEPT ![s] = NoFuture]
            /\ UNCHANGED <<executor_queue, executor_running>>
       ELSE /\ visual_prompt' = [visual_prompt EXCEPT ![s] = clean_prompt(r.text)]
            /\ run_in_executor(s, "generate_image_with_stable_diffusion",
                               clean_prompt(r.text))
            /\ calls' = [calls EXCEPT ![s] = Append(@,
                   Call("generate_image_with_stable_diffusion", clean_prompt(r.text)))]
            /\ pc' = [pc EXCEPT ![s] = "image"]
            /\ UNCHANGED <<active_connections, exc, scene_text, user_choice,
                           image_b64>>
    /\ UNCHANGED <<config_vars, ge_vars, cl_vars, client, story_history, outbox, turns>>

\* image_b64 = await generate_image_async(visual_prompt) returns; if
\* image_b64: send it; up to the receive_json of the while loop.
ResumeImage(s, how) ==
    /\ variant = "push"
    /\ pc[s] = "image"
    /\ future_done(s)
    /\ future' = [future EXCEPT ![s] = NoFuture]
    /\ LET r == future[s].value IN
       IF r.raised # "none"
       THEN /\ on_exception(s, r.raised)
            /\ drop_locals(s)
            /\ UNCHANGED outbox
       ELSE IF r.ret = "None"
       THEN /\ pc' = [pc EXCEPT ![s] = "choice"]
            /\ image_b64' = [image_b64 EXCEPT ![s] = r.ret]
            /\ UNCHANGED <<active_connections, exc, outbox, scene_text,
                           visual_prompt, user_choice, calls>>
       ELSE CASE send_json(s, how) = "WebSocketDisconnect" ->
                    /\ on_disconnect(s)
                    /\ drop_locals(s)
                    /\ UNCHANGED outbox
               [] send_json(s, how) = "RuntimeError" ->
                    /\ on_exception(s, "RuntimeError")
                    /\ drop_locals(s)
                    /\ UNCHANGED outbox
               [] OTHER ->
                    /\ outbox' = IF send_json(s, how) = "sent"
                                 THEN deliver(s, ImageMessage)
                                 ELSE outbox
                    /\ pc' = [pc EXCEPT ![s] = "choice"]
                    /\ image_b64' = [image_b64 EXCEPT ![s] = r.ret]
                    /\ UNCHANGED <<active_connections, exc, scene_text,
                                   visual_prompt, user_choice, calls>>
    /\ UNCHANGED <<config_vars, ge_vars, cl_vars, executor_queue, executor_running, client,
                   story_history, turns>>

\* data = await websocket.receive_json() in the while loop ... up to the
\* next await.
RecvChoice(s, frame) ==
    /\ variant = "push"
    /\ pc[s] = "choice"
    /\ IF frame_error(frame) # "none"
       THEN /\ on_exception(s, frame_error(frame))
            /\ drop_locals(s)
            /\ UNCHANGED <<executor_queue, executor_running, future,
                           story_history, turns>>
       ELSE LET choice == get(frame, "choice", NoneValue) IN
            /\ user_choice' = [user_choice EXCEPT ![s] = choice]
            /\ IF ~valid_choice(choice)
               THEN UNCHANGED <<active_connections, executor_queue,
                                executor_running, future, pc, exc, story_history,
                                scene_text, visual_prompt, image_b64, calls, turns>>
               ELSE /\ turns[s] < MaxTurns
                    /\ turns' = [turns EXCEPT ![s] = @ + 1]
                    /\ story_history' = [story_history EXCEPT ![s] =
                           Append(@, choice_line(choice))]
                    /\ run_in_executor(s, "call_gemini_api",
                                       main_next_prompt(story_history'[s]))
                    /\ calls' = [calls EXCEPT ![s] =
                           <<Call("call_gemini_api", main_next_prompt(story_history'[s]))>>]
                    /\ pc' = [pc EXCEPT ![s] = "scene"]
                    /\ UNCHANGED <<active_connections, exc, scene_text, visual_prompt,
                                   image_b64>>
    /\ UNCHANGED <<config_vars, ge_vars, cl_vars, client, outbox>>

main_Init ==
    /\ active_connections = <<>>
    /\ executor_queue = <<>>
    /\ executor_running = {}
    /\ future = [s \in Sessions |-> NoFuture]
    /\ pc = [s \in Sessions |-> IF variant = "push" THEN "new" ELSE "off"]
    /\ client = [s \in Sessions |-> "none"]
    /\ story_history = [s \in Sessions |-> <<>>]
    /\ scene_text = [s \in Sessions |-> <<>>]
    /\ visual_prompt = [s \in Sessions |-> <<>>]
    /\ user_choice = [s \in Sessions |-> NoneValue]
    /\ image_b64 = [s \in Sessions |-> NoneValue]
    /\ outbox = [s \in Sessions |-> <<>>]
    /\ exc = [s \in Sessions |-> "none"]
    /\ calls = [s \in Sessions |-> <<>>]
    /\ turns = [s \in Sessions |-> 0]

\* ------------------------------------------------- a client call on its own

ClientFunctions ==
    {"game_engine.call_gemini_api", "main.call_gemini_api",
     "game_engine.generate_image_with_stable_diffusion",
     "main.generate_image_with_stable_diffusion"}

CompletionClients == {"game_engine.call_gemini_api", "main.call_gemini_api"}

ClientArgs == {<<"A", " ", "B">>, <<>>}

\* What the call of cl_fn comes to once the service has answered `answers`.
client_result(fn, answers) ==
    CASE fn = "game_engine.call_gemini_api" ->
             IF answers = <<>> THEN [raised |-> "none", text |-> <<>>, ret |-> "pending"]
             ELSE game_engine_call_gemini_api(answers[1]) @@ [ret |-> "text"]
      [] fn = "main.call_gemini_api" ->
             IF answers = <<>> THEN [raised |-> "none", text |-> <<>>, ret |-> "pending"]
             ELSE main_call_gemini_api(answers[1]) @@ [ret |-> "text"]
      [] fn = "game_engine.generate_image_with_stable_diffusion" ->
             game_engine_generate_image(HUGGINGFACE_API_KEY, answers, 1)
      [] OTHER -> main_generate_image(HUGGINGFACE_API_KEY, answers)

cl_Settle(answers) ==
    /\ cl_answers' = answers
    /\ cl_result' = client_result(cl_fn, answers)
    /\ cl_pc' = CASE cl_result'.ret = "pending" -> "request"
                  [] cl_result'.raised # "none" -> "raised"
                  [] OTHER -> "returned"
    /\ UNCHANGED <<config_vars, ge_vars, main_vars, cl_fn, cl_arg>>

\* The call, up to its first request (or its return, when it makes none).
cl_Call ==
    /\ variant = "client"
    /\ cl_pc = "ready"
    /\ cl_Settle(<<>>)

\* The text service answers the request.
cl_GeminiAnswer(response) ==
    /\ variant = "client"
    /\ cl_pc = "request"
    /\ cl_fn \in CompletionClients
    /\ cl_Settle(Append(cl_answers, response))

\* The image service answers the request.
cl_ImageAnswer(response) ==
    /\ variant = "client"
    /\ cl_pc = "request"
    /\ cl_fn \notin CompletionClients
    /\ cl_Settle(Append(cl_answers, response))

cl_Init ==
    /\ cl_pc = "off"
    /\ cl_fn = "none"
    /\ cl_arg = <<>>
    /\ cl_answers = <<>>
    /\ cl_result = NoImage

\* ---------------------------------------------------------- specification

vars == <<config_vars, ge_vars, main_vars, cl_vars>>

Init ==
    /\ variant \in {"console", "push"}
    /\ HUGGINGFACE_API_KEY \in BOOLEAN
    /\ ge_Init
    /\ main_Init
    /\ cl_Init

\* One run of one program: the console loop, or the server with one client.
\* The text service answers a call with prose, with a failure the client
\* turns into its sentinel, or with a body the client raises on; the image
\* service answers anything.
OneSession == {"ws1"}

SessionGeminiResponses ==
    {[kind |-> "candidate", text |-> SceneProse],
     [kind |-> "ConnectionError", text |-> <<>>],
     [kind |-> "candidate_malformed", text |-> <<>>]}

Next ==
    \/ \E user_idea \in ConsoleIdeas : ge_Start(user_idea)
    \/ \E response \in SessionGeminiResponses : ge_Scene(response)
    \/ \E response \in SessionGeminiResponses : ge_Visual(response)
    \/ ge_Image
    \/ \E response \in ImageResponses : ge_ImageAnswer(response)
    \/ \E typed \in ConsoleInputs : ge_Choice(typed)
    \/ \E s \in OneSession : Connect(s)
    \/ \E s \in OneSession : ClientDisconnect(s)
    \/ \E s \in OneSession : RecvDisconnect(s)
    \/ \E s \in OneSession, frame \in PremiseFrames : RecvPremise(s, frame)
    \/ WorkerStart
    \/ \E job \in executor_running, response \in SessionGeminiResponses :
           WorkerGemini(job, response)
    \/ \E job \in executor_running : WorkerImage(job, <<>>)
    \/ \E job \in executor_running, response \in ImageResponses :
           WorkerImage(job, <<response>>)
    \/ \E s \in OneSession, how \in ClosedSendOutcomes : ResumeScene(s, how)
    \/ \E s \in OneSession : ResumeVisual(s)
    \/ \E s \in OneSession, how \in ClosedSendOutcomes : ResumeImage(s, how)
    \/ \E s \in OneSession, frame \in ChoiceFrames : RecvChoice(s, frame)

Spec == Init /\ [][Next]_vars

\* The server with every client of Sessions connecting, under every
\* interleaving of their handlers and the worker threads; the services and
\* the clients draw from fewer answers and frames (one of each way a handler
\* can go on, stop or fail).
FewGeminiResponses ==
    {[kind |-> "candidate", text |-> SceneProse],
     [kind |-> "candidate_malformed", text |-> <<>>]}

FewImageResponses == {r \in ImageResponses : r.status \in {200, 0}}

FewPremiseFrames == {f \in PremiseFrames : f.json = "array" \/ "idea" \in f.keys}

FewChoiceFrames ==
    {f \in ChoiceFrames : f.json = "array" \/ ("choice" \in f.keys /\ f.choice = "A")}

ConcurrentInit ==
    /\ variant = "push"
    /\ HUGGINGFACE_API_KEY \in BOOLEAN
    /\ ge_Init
    /\ main_Init
    /\ cl_Init

ConcurrentNext ==
    \/ \E s \in Sessions : Connect(s)
    \/ \E s \in Sessions : ClientDisconnect(s)
    \/ \E s \in Sessions : RecvDisconnect(s)
    \/ \E s \in Sessions, frame \in FewPremiseFrames : RecvPremise(s, frame)
    \/ WorkerStart
    \/ \E job \in executor_running, response \in FewGeminiResponses :
           WorkerGemini(job, response)
    \/ \E job \in executor_running : WorkerImage(job, <<>>)
    \/ \E job \in executor_running, response \in FewImageResponses :
           WorkerImage(job, <<response>>)
    \/ \E s \in Sessions, how \in ClosedSendOutcomes : ResumeScene(s, how)
    \/ \E s \in Sessions : ResumeVisual(s)
    \/ \E s \in Sessions, how \in ClosedSendOutcomes : ResumeImage(s, how)
    \/ \E s \in Sessions, frame \in FewChoiceFrames : RecvChoice(s, frame)

ConcurrentSpec == ConcurrentInit /\ [][ConcurrentNext]_vars


\* One call of one client function, for every function, argument,
\* credential and sequence of service answers.
ClientInit ==
    /\ variant = "client"
    /\ HUGGINGFACE_API_KEY \in BOOLEAN
    /\ ge_Init
    /\ main_Init
    /\ cl_pc = "ready"
    /\ cl_fn \in ClientFunctions
    /\ cl_arg \in ClientArgs
    /\ cl_answers = <<>>
    /\ cl_result = NoImage

ClientNext ==
    \/ cl_Call
    \/ \E response \in GeminiResponses : cl_GeminiAnswer(response)
    \/ \E response \in ImageResponses : cl_ImageAnswer(response)

ClientSpec == ClientInit /\ [][ClientNext]_vars


\* ------------------------------------------------------------------ claims

\* C1 (as claimed): for every prompt and every outcome of the remote call,
\* call_gemini_api (both implementations) returns non-empty text or its
\* sentinel and raises nothing.
C1_TotalClient ==
    (cl_fn \in CompletionClients /\ cl_pc \in {"returned", "raised"}) =>
        /\ cl_result.raised = "none"
        /\ cl_result.text # <<>>

\* C2 (as claimed): in the console loop, whenever a choice is requested after
\* N completed turns, the transcript holds exactly 1 + 2N entries.
C2_OnePlusTwoN ==
    ge_pc = "choice" => Len(ge_story_history) = 1 + 2 * ge_turns

\* C2 (amended): in the console loop, whenever a choice is requested (or the
\* loop has been quit) after N completed turns, the transcript holds exactly
\* 2 + 2N entries: the premise, the opening scene line, then one choice line
\* and one scene line per turn.
C2_TwoPlusTwoN ==
    ge_pc \in {"choice", "quit"} =>
        /\ Len(ge_story_history) = 2 + 2 * ge_turns
        /\ \A i \in 1..Len(ge_story_history) :
               Head(ge_story_history[i]) =
                   CASE i = 1 -> "The user's character is "
                     [] i % 2 = 0 -> "AI Scene: "
                     [] OTHER -> "User chose: "

C2_Witness == ge_pc = "choice" /\ ge_turns >= 1

\* C3: in both variants every step leaves the transcript before it a prefix
\* of the transcript after it, and appends at most one entry.
C3_AppendOnly ==
    [][/\ IsPrefix(ge_story_history, ge_story_history')
       /\ Len(ge_story_history') <= Len(ge_story_history) + 1
       /\ \A s \in Sessions :
              /\ IsPrefix(story_history[s], story_history'[s])
              /\ Len(story_history'[s]) <= Len(story_history[s]) + 1]_vars

C3_Witness ==
    /\ pc["ws1"] = "choice"
    /\ turns["ws1"] >= 1
    /\ Len(story_history["ws1"]) >= 4

\* The frames and typed lines that are no valid choice.
InvalidTyped == {typed \in ConsoleInputs : upper(typed) \notin {"A", "B"}}

InvalidFrames ==
    {f \in ChoiceFrames : f.json # "object" \/ get(f, "choice", NoneValue) \notin {"A", "B"}}

ge_NoCall == ge_calls' = ge_calls /\ ge_pc' \notin {"scene", "visual", "image", "image_request"}

main_NoCall(s) ==
    /\ executor_queue' = executor_queue
    /\ executor_running' = executor_running
    /\ future'[s] = future[s]
    /\ calls'[s] = calls[s] \/ calls'[s] = <<>>

ConsoleImageClient == "game_engine.generate_image_with_stable_diffusion"

LoadingHTTPError(r) == r.exc = "HTTPError" /\ r.body = "loading"

\* C5 (as claimed): when the image service answers a request of the console
\* illustration client with an HTTP error whose JSON body reports a loading
\* delay T, the client sleeps at least T, issues a retry request, and
\* returns what the retry yields.
C5_SleepsAndRetries ==
    (/\ cl_fn = ConsoleImageClient
     /\ cl_pc \in {"returned", "raised"}
     /\ cl_answers # <<>>
     /\ LoadingHTTPError(cl_answers[1])) =>
        /\ cl_result.requests >= 2
        /\ cl_result.sleeps # <<>>
        /\ cl_result.sleeps[1] * 10 >= cl_answers[1].estimated_time
        /\ cl_result.ret =
               game_engine_generate_image(HUGGINGFACE_API_KEY, Tail(cl_answers), 1).ret

\* C6 (as claimed): one call of the console illustration client issues at
\* most two requests, whatever the service answers, the second one exactly
\* when the first answer reports a loading delay.
C6_AtMostTwoRequests ==
    (cl_fn = ConsoleImageClient /\ cl_answers # <<>>) =>
        /\ Len(cl_answers) <= 2
        /\ cl_result.requests <= 2
        /\ (cl_pc = "returned" /\ cl_answers[1].body = "loading") =>
               cl_result.requests = 2

HasImageMessage(s) == \E i \in 1..Len(outbox[s]) : outbox[s][i].type = "image"

\* C7: without the image credential the illustration client returns nothing
\* and makes no request, in both implementations, and the loop goes on to
\* the next choice without an illustration.
C7_NoCredentialNoRequest ==
    [][~HUGGINGFACE_API_KEY =>
        /\ ge_pc' # "image_request"
        /\ ge_files' = <<>>
        /\ ge_pc = "image" =>
               /\ ge_pc' = "choice"
               /\ ge_image'.ret = "None"
               /\ ge_image'.requests = 0
        /\ \A s \in Sessions :
               /\ ~HasImageMessage(s)'
               /\ (pc[s] = "image" /\ future[s].state = "done") =>
                      /\ future[s].value.ret = "None"
                      /\ future[s].value.requests = 0
               /\ (pc[s] = "image" /\ pc'[s] # "image") => pc'[s] = "choice"]_vars

C7_Witness ==
    /\ ~HUGGINGFACE_API_KEY
    /\ ge_pc = "choice"
    /\ ge_turns >= 1
    /\ Len(ge_stdout) >= 2

\* C8: at session start, in both variants, before the first choice is
\* requested the completion client has been called once for the opening
\* scene, the scene line appended, the deriver called once with that scene
\* text and the illustration client once with the derived prompt, in this
\* order; one image artifact exists exactly when the illustration succeeded
\* and one scene has been delivered.
C8_OpeningPipeline ==
    /\ (ge_pc = "visual" /\ ge_turns = 0) =>
           /\ Len(ge_calls) = 1
           /\ ge_story_history[2] = <<"AI Scene: ">> \o ge_scene_text
    /\ (ge_pc = "choice" /\ ge_turns = 0 /\ ge_invalid = 0) =>
           \E user_idea \in ConsoleIdeas :
               /\ ge_story_history =
                      <<game_engine_premise(user_idea), <<"AI Scene: ">> \o ge_scene_text>>
               /\ ge_calls =
                      <<Call("call_gemini_api", game_engine_initial_prompt(user_idea)),
                        Call("generate_visual_prompt", ge_scene_text),
                        Call("call_gemini_api", game_engine_visual_request(ge_scene_text)),
                        Call("generate_image_with_stable_diffusion", ge_visual_prompt)>>
               /\ ge_stdout = <<ge_scene_text>>
               /\ ge_files = IF ge_image.ret = "Image" THEN <<scene_file(1)>> ELSE <<>>
               /\ ge_scene_counter = Len(ge_files)
    /\ \A s \in Sessions :
           /\ (pc[s] = "visual" /\ turns[s] = 0) =>
                  /\ Len(calls[s]) = 3
                  /\ story_history[s][2] = <<"AI Scene: ">> \o scene_text[s]
           /\ (pc[s] = "choice" /\ turns[s] = 0) =>
                  \E user_idea \in {get(f, "idea", main_default_idea) : f \in PremiseFrames} :
                      /\ story_history[s] =
                             <<main_premise(user_idea), <<"AI Scene: ">> \o scene_text[s]>>
                      /\ calls[s] =
                             <<Call("call_gemini_api", main_initial_prompt(user_idea)),
                               Call("generate_visual_prompt_async", scene_text[s]),
                               Call("call_gemini_api", main_visual_request(scene_text[s])),
                               Call("generate_image_with_stable_diffusion", visual_prompt[s])>>
                      /\ LET sent == <<StoryMessage(scene_text[s])>> \o
                                     (IF image_b64[s] # NoneValue THEN <<ImageMessage>> ELSE <<>>)
                         IN /\ IsPrefix(outbox[s], sent)
                            /\ client[s] = "open" => outbox[s] = sent

C8_Witness ==
    /\ pc["ws1"] = "choice"
    /\ turns["ws1"] = 0
    /\ client["ws1"] = "open"
    /\ image_b64["ws1"] # NoneValue
    /\ Len(outbox["ws1"]) = 2

\* C9: in the push variant a session has at most one call in flight at any
\* time, and while its call is in flight the session neither starts another
\* call nor reads a client frame: its handler does not move.
C9_OneCallInFlight ==
    [][\A s \in Sessions :
           /\ InFlight(s) <= 1
           /\ InFlight(s)' <= 1
           /\ InFlight(s) = 1 =>
                  /\ pc[s] \in {"scene", "visual", "image"}
                  /\ future[s].state = "pending"
                  /\ pc'[s] = pc[s]
                  /\ story_history'[s] = story_history[s]
                  /\ user_choice'[s] = user_choice[s]
                  /\ outbox'[s] = outbox[s]
                  /\ calls'[s] = calls[s]]_vars

C9_Witness == \A s \in Sessions : InFlight(s) = 1

SessionState(s) ==
    <<pc[s], story_history[s], scene_text[s], visual_prompt[s], user_choice[s],
      image_b64[s], outbox[s], exc[s], calls[s], turns[s], future[s], client[s]>>

\* C10: in the push variant no step changes the transcript, the outbox or
\* any other per-session state of two sessions, and the registry changes
\* only when a session connects (its websocket is appended) or its handler
\* catches the disconnect (its websocket is removed).
C10_Isolation ==
    [][/\ \A s, t \in Sessions :
              (s # t /\ SessionState(s)' # SessionState(s)) =>
                  SessionState(t)' = SessionState(t)
       /\ active_connections' # active_connections =>
              \E s \in Sessions :
                  \/ /\ pc[s] = "new" /\ pc'[s] = "premise"
                     /\ active_connections' = Append(active_connections, s)
                  \/ /\ pc[s] \notin {"ended", "crashed"} /\ pc'[s] = "ended"
                     /\ active_connections' = remove(active_connections, s)]_vars

C10_Witness ==
    /\ \A s \in Sessions : pc[s] = "choice" /\ client[s] = "open" /\ outbox[s] # <<>>
    /\ turns["ws1"] = 1
    /\ turns["ws2"] = 0
    /\ Len(active_connections) = 2

Registered(s) == \E i \in 1..Len(active_connections) : active_connections[i] = s

HandlerOver(s) == pc[s] \in {"ended", "crashed"}

\* C11 (as claimed): in the push variant, once the client has disconnected
\* and the session's handler is over, the session's connection is no longer
\* in the registry of active connections.
C11_DisconnectReleases ==
    \A s \in Sessions :
        (client[s] = "closed" /\ HandlerOver(s)) => ~Registered(s)

IsPremiseLine(e) == Len(e) >= 2 /\ e[1] = "The user's character is " /\ e[Len(e)] = "."

IsSceneLine(e) == e # <<>> /\ e[1] = "AI Scene: "

IsChoiceLine(e) == Len(e) = 2 /\ e[1] = "User chose: " /\ e[2] \in {"A", "B"}

\* C12 (as claimed): in the push variant the premise is not an entry of the
\* transcript: the first entry is the opening scene line, and after it the
\* entries alternate choice line, scene line.
C12_NoPremiseEntry ==
    \A s \in Sessions : \A i \in 1..Len(story_history[s]) :
        IF i % 2 = 1 THEN IsSceneLine(story_history[s][i])
        ELSE IsChoiceLine(story_history[s][i])

\* C12 (amended): in the push variant the first entry of the transcript is
\* the premise sentence, the second the opening scene line, and after them
\* the entries alternate choice line, scene line; while no call is pending
\* the transcript ends with a scene line.
C12_PremiseThenPairs ==
    \A s \in Sessions :
        /\ \A i \in 1..Len(story_history[s]) :
              CASE i = 1 -> IsPremiseLine(story_history[s][i])
                [] i % 2 = 0 -> IsSceneLine(story_history[s][i])
                [] OTHER -> IsChoiceLine(story_history[s][i])
        /\ pc[s] = "choice" => Len(story_history[s]) = 2 + 2 * turns[s]

C12_Witness ==
    /\ pc["ws1"] = "choice"
    /\ turns["ws1"] = 1
    /\ Len(story_history["ws1"]) = 4

PushImageClient == "main.generate_image_with_stable_diffusion"

\* C13 (as claimed): the push illustration client keeps the console one's
\* contract: a loading report is slept on and retried, and on the same
\* answers of the service both clients issue the same number of requests
\* and both yield an image or both yield nothing.
C13_SameAsConsole ==
    (cl_fn = PushImageClient /\ cl_pc \in {"returned", "raised"}) =>
        LET console == game_engine_generate_image(HUGGINGFACE_API_KEY, cl_answers, 1) IN
        /\ console.ret # "pending"
        /\ console.requests = cl_result.requests
        /\ (console.ret = "Image") <=> (cl_result.ret = "b64")
        /\ (cl_answers # <<>> /\ cl_answers[1].body = "loading") =>
               /\ cl_result.requests = 2
               /\ cl_result.sleeps # <<>>

EndsWith(t, s) == Len(s) <= Len(t) /\ SubSeq(t, Len(t) - Len(s) + 1, Len(t)) = s

\* Every entry of a transcript, in order, with one space between two
\* neighbours.
RECURSIVE Serialized(_)
Serialized(l) ==
    IF l = <<>> THEN <<>>
    ELSE IF Len(l) = 1 THEN l[1]
    ELSE Serialized(SubSeq(l, 1, Len(l) - 1)) \o <<" ">> \o l[Len(l)]

\* C14: in both variants, while the continuation call of a turn is pending,
\* the transcript ends with the choice line of the choice just accepted and
\* the prompt given to the completion client ends with the whole transcript:
\* every entry, in order, joined by single spaces.
C14_PromptCarriesTranscript ==
    /\ (ge_pc = "scene" /\ ge_turns >= 1) =>
           /\ ge_story_history[Len(ge_story_history)] = <<"User chose: ", ge_user_choice>>
           /\ ge_user_choice \in {"A", "B"}
           /\ EndsWith(ge_prompt, Serialized(ge_story_history))
           /\ Len(ge_prompt) > Len(Serialized(ge_story_history))
    /\ \A s \in Sessions : (pc[s] = "scene" /\ turns[s] >= 1) =>
           /\ story_history[s][Len(story_history[s])] = <<"User chose: ", user_choice[s]>>
           /\ user_choice[s] \in {"A", "B"}
           /\ calls[s] # <<>>
           /\ calls[s][1].fn = "call_gemini_api"
           /\ EndsWith(calls[s][1].arg, Serialized(story_history[s]))
           /\ Len(calls[s][1].arg) > Len(Serialized(story_history[s]))
           /\ \A j \in {executor_queue[i] : i \in 1..Len(executor_queue)} \cup executor_running :
                  j.session = s => j.arg = calls[s][1].arg

C14_Witness ==
    /\ ge_pc = "scene"
    /\ ge_turns = 1
    /\ Len(ge_story_history) = 3
    /\ ge_user_choice = "B"

Sentinels == {GE_ERR_CONNECT, GE_ERR_UNEXPECTED, MAIN_ERR_UNAVAILABLE}

Contains(t, s) == \E k \in 0..(Len(t) - Len(s)) : SubSeq(t, k + 1, k + Len(s)) = s

SentinelLines(history) ==
    {history[i] : i \in {k \in 1..Len(history) :
        \E e \in Sentinels : history[k] = <<"AI Scene: ">> \o e}}

\* C15: in both variants a scene that is only the error sentinel is handled
\* like any scene: once the completion client has returned it, the
\* transcript ends with its scene line, the deriver is called with it, it is
\* what the user is shown when the next choice is awaited, and every later
\* continuation prompt contains its scene line.
C15_SentinelKept ==
    /\ (ge_scene_text \in Sentinels
            /\ ge_pc \in {"visual", "image", "image_request", "choice", "quit"}) =>
           /\ ge_story_history[Len(ge_story_history)] = <<"AI Scene: ">> \o ge_scene_text
           /\ ge_pc # "visual" =>
                  \E i \in 1..Len(ge_calls) :
                      ge_calls[i] = [fn |-> "generate_visual_prompt", arg |-> ge_scene_text]
           /\ ge_pc \in {"choice", "quit"} =>
                  ge_stdout[Len(ge_stdout)] = ge_scene_text
    /\ (ge_pc = "scene" /\ ge_turns >= 1) =>
           \A line \in SentinelLines(ge_story_history) : Contains(ge_prompt, line)
    /\ \A s \in Sessions :
        /\ (scene_text[s] \in Sentinels /\ pc[s] \in {"visual", "image", "choice"}) =>
               /\ story_history[s][Len(story_history[s])] = <<"AI Scene: ">> \o scene_text[s]
               /\ \E i \in 1..Len(calls[s]) :
                      calls[s][i] = [fn |-> "generate_visual_prompt_async",
                                     arg |-> scene_text[s]]
               /\ client[s] = "open" =>
                      \E i \in 1..Len(outbox[s]) :
                          /\ outbox[s][i] = [type |-> "story", text |-> scene_text[s]]
                          /\ \A j \in (i + 1)..Len(outbox[s]) : outbox[s][j].type # "story"
        /\ (pc[s] = "scene" /\ turns[s] >= 1) =>
               \A line \in SentinelLines(story_history[s]) :
                   Contains(calls[s][1].arg, line)

C15_Witness ==
    /\ pc["ws1"] = "scene"
    /\ turns["ws1"] = 1
    /\ SentinelLines(story_history["ws1"]) # {}
    /\ scene_text["ws1"] = MAIN_ERR_UNAVAILABLE
    /\ client["ws1"] = "open"

ScenesGenerated ==
    Cardinality({i \in 1..Len(ge_story_history) : ge_story_history[i][1] = "AI Scene: "})

IllustrationReturns ==
    ge_pc \in {"image", "image_request"} /\ ge_pc' \in {"choice", "crashed"}

\* C16: in the console variant the illustration files written are named
\* scene_1.png, scene_2.png, ..., scene_m.png in this order, m being the
\* counter; the counter never exceeds the number of scenes generated; a
\* file is written, and the counter advanced by one, exactly when an
\* illustration call returns an image, and a call that returns nothing
\* leaves both as they are.
C16_FilesNumbered ==
    /\ [](/\ Len(ge_files) = ge_scene_counter
          /\ \A i \in 1..Len(ge_files) : ge_files[i] = <<"scene_", i, ".png">>
          /\ ge_scene_counter <= ScenesGenerated)
    /\ [][/\ (IllustrationReturns /\ ge_image'.ret = "Image" /\ ge_image'.raised = "none") =>
                 /\ ge_scene_counter' = ge_scene_counter + 1
                 /\ Len(ge_files') = Len(ge_files) + 1
          /\ ~(IllustrationReturns /\ ge_image'.ret = "Image" /\ ge_image'.raised = "none") =>
                 /\ ge_scene_counter' = ge_scene_counter
                 /\ ge_files' = ge_files]_vars

C16_Witness ==
    /\ ge_pc = "choice"
    /\ ge_turns = 1
    /\ ScenesGenerated = 2
    /\ ge_scene_counter = 1
    /\ ge_image.ret = "Image"
    /\ ge_files = <<(<<"scene_", 1, ".png">>)>>

\* The handler of s is at a send_json: the scene call has returned a text,
\* or the illustration call an image.
AtSend(s) ==
    /\ future[s].state = "done"
    /\ future[s].value.raised = "none"
    /\ \/ pc[s] = "scene"
       \/ pc[s] = "image" /\ future[s].value.ret # "None"

AtReceive(s) == pc[s] \in {"premise", "choice"}

StoryCount(s) ==
    Cardinality({i \in 1..Len(outbox[s]) : outbox[s][i].type = "story"})

\* C18: in the push variant the messages a connected client has received
\* are, per scene, one story message followed by at most one image message:
\* an image message comes directly after a story message; there is one
\* story message for the opening scene and one per accepted choice, the
\* last of them carrying the current scene; when the next choice is awaited
\* the last message is an image message exactly when the illustration
\* client returned an image; and an invalid choice sends nothing.
C18_MessageOrder ==
    /\ [](\A s \in Sessions :
            /\ \A i \in 1..Len(outbox[s]) :
                   /\ outbox[s][i].type \in {"story", "image"}
                   /\ outbox[s][i].type = "image" =>
                          (i > 1 /\ outbox[s][i - 1].type = "story")
            /\ StoryCount(s) <= turns[s] + 1
            /\ pc[s] \in {"new", "premise"} => outbox[s] = <<>>
            /\ client[s] = "open" =>
                   /\ pc[s] = "scene" =>
                          StoryCount(s) = turns[s]
                   /\ pc[s] \in {"visual", "image"} =>
                          /\ StoryCount(s) = turns[s] + 1
                          /\ outbox[s][Len(outbox[s])] =
                                 [type |-> "story", text |-> scene_text[s]]
                   /\ pc[s] = "choice" =>
                          /\ StoryCount(s) = turns[s] + 1
                          /\ IF image_b64[s] = "None"
                             THEN outbox[s][Len(outbox[s])] =
                                      [type |-> "story", text |-> scene_text[s]]
                             ELSE /\ outbox[s][Len(outbox[s])].type = "image"
                                  /\ outbox[s][Len(outbox[s]) - 1] =
                                         [type |-> "story", text |-> scene_text[s]])
    /\ [][\A s \in Sessions :
             (pc[s] = "choice" /\ pc'[s] # "scene") => outbox'[s] = outbox[s]]_vars

C18_Witness ==
    /\ pc["ws1"] = "choice"
    /\ client["ws1"] = "open"
    /\ turns["ws1"] = 1
    /\ Len(outbox["ws1"]) = 3
    /\ outbox["ws1"][2].type = "image"
    /\ outbox["ws1"][3].type = "story"
    /\ user_choice["ws1"] = "B"

HandlerRunning(s) == pc[s] \in {"premise", "scene", "visual", "image", "choice"}

\* C19 (as claimed): in the push variant the registry of active connections
\* holds exactly the connections whose handler is still running, each once:
\* when a handler has ended, for whatever reason, its connection is not in
\* the registry.
C19_RegistryIsRunning ==
    /\ \A s \in Sessions : Registered(s) <=> HandlerRunning(s)
    /\ Len(active_connections) = Cardinality({s \in Sessions : HandlerRunning(s)})

=============================================================================
